---------------------------- MODULE Spec2Model ----------------------------
(* A model of agent.py: the agent loop run_agent, its four tool executors,  *)
(* write_code and the test runner run_test.  The remote model, the file     *)
(* system and the generated parser module are the environment: the model's  *)
(* responses are drawn from Responses, I/O faults from IoOutcomes, and a    *)
(* generated module is represented by what loading and calling it does.     *)
EXTENDS Integers, Sequences, FiniteSets, TLC

VARIABLES
    pc,            \* control state of run_agent (or of the test harness)
    messages,      \* the transcript (run_agent.messages)
    attempts,      \* run_agent.attempts
    iteration,     \* run_agent.iteration
    file,          \* custom_parsers/<target>_parser.py on disk
    csv,           \* data/<target>/<target>_sample.csv, as pd.read_csv sees it
    tool_calls,    \* message.tool_calls of the response being processed
    idx,           \* position of the for loop in tool_calls
    exc,           \* the exception that left run_agent / run_test, or NoExc
    lastTest,      \* value of the most recent run_test call
    requests,      \* history: client.chat.completions.create calls made
    writes,        \* history: write_code calls that returned
    writeRequests, \* history: write_parser_code invocations dispatched
    handlerRuns,   \* history: tool executors entered
    handlerErrors, \* history: errors caught by the dispatch try/except
    finalTests,    \* history: final validation tests started
    faults,        \* history: I/O faults injected by the environment
    env            \* what the pre-flight checks find: GROQ_API_KEY, sample files

vars == <<pc, messages, attempts, iteration, file, csv, tool_calls, idx, exc,
          lastTest, requests, writes, writeRequests, handlerRuns,
          handlerErrors, finalTests, faults, env>>

-----------------------------------------------------------------------------
(* Bounds of the exploration.                                               *)

\* tool-calling responses the model gives in one run
MaxToolRounds == 2
\* I/O faults (unreadable PDF/CSV, failing write) the environment injects
MaxFaults == 1
\* plain no-marker replies the model may have given before it requests tools
MaxIdleFirst == 0
\* rows of a table in the test-runner specification
MaxRows == 2

(* Program constants.                                                       *)
max_iterations == 30
MaxAttempts == 3

-----------------------------------------------------------------------------
(* Python values.                                                           *)

None == "<None>"
NoKey == "<no key>"
NoExc == "<no exception>"

\* Exception classes that occur; all derive from Exception.
ExceptionTypes ==
    {"OSError", "NameError", "SyntaxError", "ImportError", "AttributeError",
     "ZeroDivisionError", "ParserError", "JSONDecodeError", "APIError",
     "ValueError"}

\* `except Exception as e`
ExceptException(e) == e \in ExceptionTypes

\* `except NameError as e`
ExceptNameError(e) == e = "NameError"

\* the except clause of the decode narrowed to AttributeError
ExceptDecodeErrorAttributeOnly(e) == e = "AttributeError"

\* `except (json.JSONDecodeError, AttributeError) as e`
ExceptDecodeError(e) == e \in {"JSONDecodeError", "AttributeError"}

-----------------------------------------------------------------------------
(* Tables (DataFrames): ordered column labels and ordered rows of typed     *)
(* cells.                                                                   *)

Columns == {<<"Date">>, <<"Date", "Balance">>, <<"Balance", "Date">>}
Cells == {<<"int64", 1>>, <<"float64", 1>>, <<"int64", 2>>}

TablesOf(n) ==
    UNION {UNION {{[columns |-> c, rows |-> r] :
                      r \in [1..k -> [1..Len(c) -> Cells]]} : k \in 0..n}
           : c \in Columns}

\* DataFrame.shape
Shape(df) == <<Len(df.rows), Len(df.columns)>>

\* tables compared by shape and labels only
EqualsShapeOnly(a, b) == Shape(a) = Shape(b) /\ a.columns = b.columns

\* DataFrame.equals: same shape, same labels in the same order, same
\* elements in the same places with the same dtype.
Equals(a, b) ==
    /\ Shape(a) = Shape(b)
    /\ a.columns = b.columns
    /\ \A i \in 1..Len(a.rows) : a.rows[i] = b.rows[i]

ExpectedDf ==
    [columns |-> <<"Date", "Balance">>,
     rows |-> << <<(<<"int64", 1>>), (<<"float64", 1>>)>> >>]

ShortDf == [columns |-> <<"Date", "Balance">>, rows |-> <<>>]

-----------------------------------------------------------------------------
(* The generated module, by what importing it and calling parse does.       *)
(* load : the exception exec_module raises, or NoExc                        *)
(* parse: the exception module.parse(pdf_path) .. .equals raises, or NoExc  *)
(* df   : the table parse returns when nothing is raised                    *)

Source(load, parse, df) == [load |-> load, parse |-> parse, df |-> df]

PassingSource == Source(NoExc, NoExc, ExpectedDf)
MismatchSource == Source(NoExc, NoExc, ShortDf)
BrokenSource == Source("SyntaxError", NoExc, ShortDf)
\* the empty text: it loads, and has no attribute parse
EmptySource == Source(NoExc, "AttributeError", ShortDf)

LoadErrors == {NoExc, "NameError", "SyntaxError", "ImportError"}
ParseErrors == {NoExc, "AttributeError", "ZeroDivisionError"}

NoFile == [exists |-> FALSE, src |-> EmptySource]
FileOf(src) == [exists |-> TRUE, src |-> src]

ReadableCsv(df) == [readable |-> TRUE, df |-> df]
UnreadableCsv == [readable |-> FALSE, df |-> ShortDf]

-----------------------------------------------------------------------------
(* run_test                                                                 *)

Returned(text, shapes) == [raised |-> NoExc, text |-> text, shapes |-> shapes]
Raised(e) == [raised |-> e, text |-> "", shapes |-> <<>>]
NoTest == [raised |-> NoExc, text |-> "<not run>", shapes |-> <<>>]

TEST_PASSED == "TEST PASSED"
NOT_EXIST == "Parser file does not exist."
INVALID_IMPORTS == "TEST FAILED: Parser module has invalid imports: "
NOT_MATCH == "TEST FAILED: DataFrames do not match."
TEST_FAILED == "TEST FAILED: "

\* lines 58-66: the try block around parse, read_csv and equals
RunParsed(src, c) ==
    LET e == IF src.parse # NoExc THEN src.parse
             ELSE IF ~c.readable THEN "ParserError"
             ELSE NoExc
    IN  IF e # NoExc
        THEN IF ExceptException(e) THEN Returned(TEST_FAILED, <<>>)
             ELSE Raised(e)
        ELSE IF Equals(src.df, c.df)
             THEN Returned(TEST_PASSED, <<>>)
             ELSE Returned(NOT_MATCH, <<Shape(src.df), Shape(c.df)>>)

\* lines 54-57: exec_module under `except NameError`
LoadHandled(e) == ExceptNameError(e)

\* lines 43-66.  spec_from_file_location is given a path ending in .py, so
\* neither the spec nor its loader is None.
run_test(f, c) ==
    IF ~f.exists THEN Returned(NOT_EXIST, <<>>)
    ELSE IF f.src.load # NoExc
    THEN IF LoadHandled(f.src.load) THEN Returned(INVALID_IMPORTS, <<>>)
         ELSE Raised(f.src.load)
    ELSE RunParsed(f.src, c)

-----------------------------------------------------------------------------
(* Tool invocations and the remote model's responses.                       *)

GET_PDF == "get_pdf_content"
GET_INFO == "get_expected_info"
WRITE == "write_parser_code"
RUN_TEST == "run_test"
OTHER_TOOL == "delete_parser"

\* lines 141-146
tool_map == {GET_PDF, GET_INFO, WRITE, RUN_TEST}

NoArgs == "{}"
BadArgs == "{\"code\": "
PassingArgs == "{\"code\": \"<passing parser>\"}"
BrokenArgs == "{\"code\": \"<parser with a syntax error>\"}"

\* tool_call.id, tool_call.function.name, tool_call.function.arguments
Call(name, id, arguments) == [id |-> id, name |-> name, arguments |-> arguments]

Ids == {"", "call_1"}

SingleCalls ==
    {<<Call(n, i, NoArgs)>> : n \in {GET_PDF, GET_INFO, RUN_TEST, OTHER_TOOL}, i \in Ids}
    \cup {<<Call(WRITE, i, a)>> : i \in Ids, a \in {BadArgs, PassingArgs, BrokenArgs}}

Batches ==
    {<<Call(GET_PDF, "call_1", NoArgs), Call(GET_INFO, "call_2", NoArgs),
       Call(RUN_TEST, "call_3", NoArgs)>>,
     <<Call(WRITE, "call_1", PassingArgs), Call(RUN_TEST, "call_2", NoArgs)>>,
     <<Call(WRITE, "call_1", BrokenArgs), Call(RUN_TEST, "call_2", NoArgs)>>,
     <<Call(WRITE, "", PassingArgs), Call(WRITE, "call_2", PassingArgs)>>,
     <<Call(WRITE, "call_1", PassingArgs), Call(WRITE, "call_2", BrokenArgs)>>,
     <<Call(WRITE, "call_1", BrokenArgs), Call(WRITE, "call_2", PassingArgs)>>,
     <<Call(WRITE, "call_1", BadArgs), Call(WRITE, "call_2", PassingArgs)>>,
     <<Call(OTHER_TOOL, "call_1", NoArgs), Call(WRITE, "call_2", PassingArgs)>>,
     <<Call(GET_PDF, "", NoArgs), Call(OTHER_TOOL, "", NoArgs),
       Call(GET_INFO, "call_3", NoArgs)>>,
     <<Call(WRITE, "call_1", PassingArgs), Call(WRITE, "call_2", PassingArgs),
       Call(RUN_TEST, "call_3", NoArgs)>>,
     <<Call(WRITE, "call_1", PassingArgs), Call(WRITE, "call_2", BadArgs)>>}

\* message.content and message.tool_calls of a tool-calling response
Responses ==
    {[content |-> None, tool_calls |-> cs] : cs \in SingleCalls \cup Batches}
    \cup {[content |-> "FINISH", tool_calls |-> <<Call(RUN_TEST, "call_1", NoArgs)>>]}

\* message.content of a response without tool calls
ReplyTexts == {None, "Success! Finish", "FINISH"}

\* a response without tool calls: message.tool_calls is None or empty
PlainResponses == {[content |-> t, tool_calls |-> <<>>] : t \in ReplyTexts}

\* response.choices[0].message
AllResponses == Responses \cup PlainResponses

\* `message.content or ""`
ContentOrEmpty(c) == IF c = None THEN "" ELSE c

\* str.upper on the texts that occur
Upper(s) == IF s = "Success! Finish" THEN "SUCCESS! FINISH" ELSE s

\* `"FINISH" in content.upper()` (line 229)
HasFinish(content) == Upper(content) \in {"SUCCESS! FINISH", "FINISH"}

-----------------------------------------------------------------------------
(* Transcript messages: a dict is a record; a key the dict does not have    *)
(* holds NoKey.                                                             *)

Msg(role, content, tool_call_id, name, calls) ==
    [role |-> role, content |-> content, tool_call_id |-> tool_call_id,
     name |-> name, tool_calls |-> calls]

\* lines 148-169
SeedMessages ==
    <<Msg("system", <<"You are a coding agent for writing bank statement PDF parsers.">>,
          NoKey, NoKey, <<>>),
      Msg("user", <<"Begin: Write parser for target bank statements.">>,
          NoKey, NoKey, <<>>)>>

\* json.dumps(result)
JsonDumps(result) == <<"json", result>>

\* line 188 and line 227
AssistantMsg(content, calls) == Msg("assistant", <<content>>, NoKey, NoKey, calls)

\* lines 195-198
MissingIdMsg(func_name) ==
    Msg("tool", <<"Error: Tool call for missing tool_call_id", func_name>>,
        NoKey, NoKey, <<>>)

\* lines 204-209
ResultMsg(call, result) ==
    Msg("tool", JsonDumps(result), call.id, call.name, <<>>)

\* lines 212-216
ToolErrorMsg(call, e) ==
    Msg("tool", <<"Tool error: ", e>>, call.id, NoKey, <<>>)

\* lines 219-223
UnknownToolMsg(call) ==
    Msg("tool", <<"Unknown tool: ", call.name>>, call.id, NoKey, <<>>)

-----------------------------------------------------------------------------
(* The tool executors.                                                      *)

IoOutcomes == {"ok", "open_fails", "write_fails"}

MAX_REACHED == "Max attempts (3) reached. Cannot write more code."
PARSE_FAILED == "Failed to parse tool arguments: "
WRITTEN == "Parser code written successfully."

\* what a call of an executor did: the exception it raised or NoExc, the
\* value and attempt count it returned, and the file it left behind
Outcome(raised, result, n, f, wrote, test) ==
    [raised |-> raised, result |-> result, attempts |-> n, file |-> f,
     wrote |-> wrote, test |-> test]

\* json.loads(arguments) followed by args.get('code', '') (lines 131-132)
JsonLoads(arguments) ==
    IF arguments = PassingArgs THEN [raised |-> NoExc, code |-> PassingSource]
    ELSE IF arguments = BrokenArgs THEN [raised |-> NoExc, code |-> BrokenSource]
    ELSE IF arguments = NoArgs THEN [raised |-> NoExc, code |-> EmptySource]
    ELSE [raised |-> "JSONDecodeError", code |-> EmptySource]

\* lines 35-41: open(path, 'w') truncates the file before anything is written
write_code(code, f, io) ==
    IF io = "ok" THEN [raised |-> NoExc, file |-> FileOf(code)]
    ELSE IF io = "open_fails" THEN [raised |-> "OSError", file |-> f]
    ELSE [raised |-> "OSError", file |-> FileOf(EmptySource)]

\* the cap tested one attempt too late
CapExceededLate(n) == n > MaxAttempts + 1

\* line 128
CapExceeded(n) == n > MaxAttempts

\* the counter incremented only where the write is accepted
tool_write_parser_code_CountAccepted(call, n, f, io) ==
    LET a == n + 1
        args == JsonLoads(call.arguments)
        w == write_code(args.code, f, io)
    IN  IF CapExceeded(a) THEN Outcome(NoExc, MAX_REACHED, n, f, FALSE, NoTest)
        ELSE IF args.raised # NoExc
        THEN IF ExceptDecodeError(args.raised)
             THEN Outcome(NoExc, PARSE_FAILED, n, f, FALSE, NoTest)
             ELSE Outcome(args.raised, "", n, f, FALSE, NoTest)
        ELSE IF w.raised # NoExc
        THEN Outcome(w.raised, "", n, w.file, FALSE, NoTest)
        ELSE Outcome(NoExc, WRITTEN, a, w.file, TRUE, NoTest)

\* the file written before the cap is tested
tool_write_parser_code_WriteFirst(call, n, f, io) ==
    LET a == n + 1
        args == JsonLoads(call.arguments)
        w == write_code(args.code, f, io)
    IN  IF args.raised # NoExc
        THEN Outcome(NoExc, PARSE_FAILED, a, f, FALSE, NoTest)
        ELSE IF w.raised # NoExc
        THEN Outcome(w.raised, "", n, w.file, FALSE, NoTest)
        ELSE IF CapExceeded(a) THEN Outcome(NoExc, MAX_REACHED, a, w.file, TRUE, NoTest)
        ELSE Outcome(NoExc, WRITTEN, a, w.file, TRUE, NoTest)

\* lines 126-136
tool_write_parser_code(call, n, f, io) ==
    LET a == n + 1
        args == JsonLoads(call.arguments)
        w == write_code(args.code, f, io)
    IN  IF CapExceeded(a) THEN Outcome(NoExc, MAX_REACHED, a, f, FALSE, NoTest)
        ELSE IF args.raised # NoExc
        THEN IF ExceptDecodeError(args.raised)
             THEN Outcome(NoExc, PARSE_FAILED, a, f, FALSE, NoTest)
             ELSE Outcome(args.raised, "", n, f, FALSE, NoTest)
        ELSE IF w.raised # NoExc
        THEN Outcome(w.raised, "", n, w.file, FALSE, NoTest)
        ELSE Outcome(NoExc, WRITTEN, a, w.file, TRUE, NoTest)

\* every tool call counted as an attempt
tool_get_pdf_content_Counted(n, f, io) ==
    IF io = "open_fails" THEN Outcome("OSError", "", n, f, FALSE, NoTest)
    ELSE Outcome(NoExc, "<text and tables>", n + 1, f, FALSE, NoTest)

\* lines 120-121 and 14-23: pdfplumber.open fails on an unreadable file
tool_get_pdf_content(n, f, io) ==
    IF io = "open_fails" THEN Outcome("OSError", "", n, f, FALSE, NoTest)
    ELSE Outcome(NoExc, "<text and tables>", n, f, FALSE, NoTest)

\* lines 123-124 and 25-33
tool_get_expected_info(n, f, io) ==
    IF io = "open_fails" THEN Outcome("OSError", "", n, f, FALSE, NoTest)
    ELSE Outcome(NoExc, "<columns, shape, dtypes, sample_rows>", n, f, FALSE, NoTest)

\* lines 138-139
tool_run_test(n, f, c) ==
    LET r == run_test(f, c)
    IN  Outcome(r.raised, r.text, n, f, FALSE, r)

\* lines 200-203: the call through tool_map
CallHandler(call, n, f, c, io) ==
    IF call.name = WRITE THEN tool_write_parser_code(call, n, f, io)
    ELSE IF call.name = GET_PDF THEN tool_get_pdf_content(n, f, io)
    ELSE IF call.name = GET_INFO THEN tool_get_expected_info(n, f, io)
    ELSE tool_run_test(n, f, c)

\* the correlation token never validated
MissingIdUnchecked(call) == FALSE

\* line 193: `not hasattr(tool_call, 'id') or not tool_call.id`; the SDK's
\* tool-call objects always have the attribute
MissingId(call) == call.id = ""

\* the dispatch try/except narrowed to one exception class
DispatchCatchesNameError(e) == ExceptNameError(e)

\* line 211
DispatchCatches(e) == ExceptException(e)

\* what one pass of the for loop body did (lines 190-223): the messages
\* appended, attempts and the file afterwards, whether an executor was
\* entered, the exception caught, and the exception that left the loop
Step(msgs, n, f, ran, caught, escaped, wrote, test) ==
    [msgs |-> msgs, attempts |-> n, file |-> f, ran |-> ran, caught |-> caught,
     escaped |-> escaped, wrote |-> wrote, test |-> test]

\* a call without a token skipped without a message
DispatchKnownSilentSkip(call, n, f, c, io) ==
    LET h == CallHandler(call, n, f, c, io)
    IN  IF MissingId(call)
        THEN Step(<<>>, n, f, FALSE, NoExc, NoExc, FALSE, NoTest)
        ELSE IF h.raised = NoExc
        THEN Step(<<ResultMsg(call, h.result)>>, h.attempts, h.file, TRUE, NoExc, NoExc,
                  h.wrote, h.test)
        ELSE IF DispatchCatches(h.raised)
        THEN Step(<<ToolErrorMsg(call, h.raised)>>, n, h.file, TRUE, h.raised, NoExc,
                  FALSE, h.test)
        ELSE Step(<<>>, n, h.file, TRUE, NoExc, h.raised,
                  FALSE, h.test)

\* the cap refusal raised out of the loop instead of returned as a result
DispatchKnownStopsAtCap(call, n, f, c, io) ==
    LET h == CallHandler(call, n, f, c, io)
    IN  IF MissingId(call)
        THEN Step(<<MissingIdMsg(call.name)>>, n, f, FALSE, NoExc, NoExc, FALSE, NoTest)
        ELSE IF h.raised = NoExc /\ h.result = MAX_REACHED
        THEN Step(<<>>, n, f, TRUE, NoExc, "RuntimeError", FALSE, NoTest)
        ELSE IF h.raised = NoExc
        THEN Step(<<ResultMsg(call, h.result)>>, h.attempts, h.file, TRUE, NoExc, NoExc,
                  h.wrote, h.test)
        ELSE IF DispatchCatches(h.raised)
        THEN Step(<<ToolErrorMsg(call, h.raised)>>, n, h.file, TRUE, h.raised, NoExc,
                  FALSE, h.test)
        ELSE Step(<<>>, n, h.file, TRUE, NoExc, h.raised,
                  FALSE, h.test)

\* lines 192-217: the branch for a name in tool_map
DispatchKnown(call, n, f, c, io) ==
    LET h == CallHandler(call, n, f, c, io)
    IN  IF MissingId(call)
        THEN Step(<<MissingIdMsg(call.name)>>, n, f, FALSE, NoExc, NoExc, FALSE, NoTest)
        ELSE IF h.raised = NoExc
        THEN Step(<<ResultMsg(call, h.result)>>, h.attempts, h.file, TRUE, NoExc, NoExc,
                  h.wrote, h.test)
        ELSE IF DispatchCatches(h.raised)
        THEN Step(<<ToolErrorMsg(call, h.raised)>>, n, h.file, TRUE, h.raised, NoExc,
                  FALSE, h.test)
        ELSE Step(<<>>, n, h.file, TRUE, NoExc, h.raised,
                  FALSE, h.test)

\* tool_map indexed without the membership test: the KeyError is caught by
\* the dispatch try/except
DispatchNoMembershipTest(call, n, f, c, io) ==
    IF call.name \in tool_map THEN DispatchKnown(call, n, f, c, io)
    ELSE Step(<<ToolErrorMsg(call, "KeyError")>>, n, f, FALSE, "KeyError", NoExc,
              FALSE, NoTest)

\* lines 190-223
Dispatch(call, n, f, c, io) ==
    IF call.name \in tool_map THEN DispatchKnown(call, n, f, c, io)
    ELSE Step(<<UnknownToolMsg(call)>>, n, f, FALSE, NoExc, NoExc, FALSE, NoTest)

-----------------------------------------------------------------------------
(* run_agent                                                                *)

\* the loop test off by one
LoopContinuesOffByOne(i) == i <= max_iterations

\* the transcript cut to its most recent messages before the append
ExtendTrimmed(ms, new) == IF Len(ms) >= 4 THEN Tail(ms) \o new ELSE ms \o new

\* messages.append (lines 188, 195, 204, 212, 219, 227)
Extend(ms, new) == ms \o new

\* a failed request retried on the next pass of the loop
OnRequestErrorRetry == "AWAITING_MODEL"

\* lines 177-183 sit in no try block: the error leaves run_agent
OnRequestError == "RAISED"

\* the completion marker tested before the tool calls
TakesToolBranchUnlessFinish(r) ==
    r.tool_calls # <<>> /\ ~HasFinish(ContentOrEmpty(r.content))

\* line 187: `if message.tool_calls:`
TakesToolBranch(r) == r.tool_calls # <<>>

\* line 176
LoopContinues(i) == i < max_iterations

\* line 239 and the loop test after it; line 241 when the loop ends
AfterRound(i) == IF LoopContinues(i + 1) THEN "AWAITING_MODEL" ELSE "ABORTED"

IsToolRequest(m) == m.role = "assistant" /\ m.tool_calls # <<>>
IsPlainReply(m) == m.role = "assistant" /\ m.tool_calls = <<>>

ToolRounds == Cardinality({i \in DOMAIN messages : IsToolRequest(messages[i])})
PlainReplies == Cardinality({i \in DOMAIN messages : IsPlainReply(messages[i])})

Files == {NoFile, FileOf(MismatchSource)}

Init ==
    /\ pc = "RUNNING"
    /\ messages = <<>>
    /\ attempts = 0
    /\ iteration = 0
    /\ file \in Files
    /\ csv = ReadableCsv(ExpectedDf)
    /\ tool_calls = <<>>
    /\ idx = 1
    /\ exc = NoExc
    /\ lastTest = NoTest
    /\ requests = 0
    /\ writes = 0
    /\ writeRequests = 0
    /\ handlerRuns = 0
    /\ handlerErrors = 0
    /\ finalTests = 0
    /\ faults = 0
    /\ env \in [api_key : BOOLEAN, samples : BOOLEAN]

\* the pre-flight test of the sample files left out
PreflightKeyOnly(e) == IF ~e.api_key THEN "ValueError" ELSE NoExc

\* lines 70-77: the exception the pre-flight checks raise, or NoExc
Preflight(e) ==
    IF ~e.api_key THEN "ValueError"
    ELSE IF ~e.samples THEN "ValueError"
    ELSE NoExc

\* lines 68-174: the pre-flight checks and the seeding of the transcript
Start ==
    /\ pc = "RUNNING"
    /\ IF Preflight(env) = NoExc
       THEN /\ messages' = SeedMessages
            /\ pc' = "AWAITING_MODEL"
            /\ exc' = exc
       ELSE /\ pc' = "RAISED"
            /\ exc' = Preflight(env)
            /\ messages' = messages
    /\ UNCHANGED <<attempts, iteration, file, csv, tool_calls, idx, lastTest,
                   requests, writes, writeRequests, handlerRuns, handlerErrors,
                   finalTests, faults, env>>

\* lines 177-183 when the request fails
ModelRaises ==
    /\ pc = "AWAITING_MODEL"
    /\ LoopContinues(iteration)
    /\ requests' = requests + 1
    /\ pc' = OnRequestError
    /\ exc' = "APIError"
    /\ UNCHANGED <<messages, attempts, iteration, file, csv, tool_calls, idx,
                   lastTest, writes, writeRequests, handlerRuns, handlerErrors,
                   finalTests, faults, env>>

\* lines 177-188: a response with tool calls.  The remote model is bounded:
\* it asks for tools in at most MaxToolRounds responses, and only while it
\* has given at most MaxIdleFirst plain replies.
ModelRequestsTools ==
    /\ pc = "AWAITING_MODEL"
    /\ LoopContinues(iteration)
    /\ ToolRounds < MaxToolRounds
    /\ PlainReplies <= MaxIdleFirst
    /\ \E r \in AllResponses :
          /\ TakesToolBranch(r)
          /\ messages' = Extend(messages,
                                <<AssistantMsg(ContentOrEmpty(r.content), r.tool_calls)>>)
          /\ tool_calls' = r.tool_calls
    /\ idx' = 1
    /\ requests' = requests + 1
    /\ pc' = "DISPATCHING_TOOLS"
    /\ UNCHANGED <<attempts, iteration, file, csv, exc, lastTest, writes,
                   writeRequests, handlerRuns, handlerErrors, finalTests, faults, env>>

\* lines 189-223 for one tool call, and line 239 after the last one.  The
\* environment injects at most MaxFaults I/O faults, each into a call that
\* does I/O.
DispatchToolCall ==
    /\ pc = "DISPATCHING_TOOLS"
    /\ idx <= Len(tool_calls)
    /\ \E io \in IoOutcomes :
          LET call == tool_calls[idx]
              d == Dispatch(call, attempts, file, csv, io)
          IN  /\ io # "ok" => faults < MaxFaults /\ "OSError" \in {d.caught, d.escaped}
              /\ faults' = IF io = "ok" THEN faults ELSE faults + 1
              /\ messages' = Extend(messages, d.msgs)
              /\ attempts' = d.attempts
              /\ file' = d.file
              /\ lastTest' = IF d.test = NoTest THEN lastTest ELSE d.test
              /\ writes' = IF d.wrote THEN writes + 1 ELSE writes
              /\ writeRequests' = IF call.name = WRITE THEN writeRequests + 1
                                  ELSE writeRequests
              /\ handlerRuns' = IF d.ran THEN handlerRuns + 1 ELSE handlerRuns
              /\ handlerErrors' = IF d.caught # NoExc THEN handlerErrors + 1
                                  ELSE handlerErrors
              /\ exc' = d.escaped
              /\ idx' = idx + 1
              /\ IF d.escaped # NoExc
                 THEN pc' = "RAISED" /\ iteration' = iteration
                 ELSE IF idx < Len(tool_calls)
                 THEN pc' = pc /\ iteration' = iteration
                 ELSE pc' = AfterRound(iteration) /\ iteration' = iteration + 1
    /\ UNCHANGED <<csv, tool_calls, requests, finalTests, env>>

\* lines 177-184 and 224-239: a response without tool calls.  The remote
\* model is bounded: once it has asked for tools, its plain replies carry the
\* marker; a model that never asks for tools may reply up to the ceiling.
ModelReplies ==
    /\ pc = "AWAITING_MODEL"
    /\ LoopContinues(iteration)
    /\ \E r \in AllResponses :
          LET content == ContentOrEmpty(r.content)
              final_result == run_test(file, csv)
          IN  /\ ~TakesToolBranch(r)
              /\ HasFinish(content) \/ ToolRounds = 0
              /\ tool_calls' = r.tool_calls
              /\ messages' = Extend(messages, <<AssistantMsg(content, <<>>)>>)
              /\ IF HasFinish(content)
                 THEN /\ finalTests' = finalTests + 1
                      /\ lastTest' = final_result
                      /\ exc' = final_result.raised
                      /\ pc' = IF final_result.raised # NoExc THEN "RAISED"
                               ELSE "FINISHED"
                      /\ iteration' = iteration
                 ELSE /\ pc' = AfterRound(iteration)
                      /\ iteration' = iteration + 1
                      /\ UNCHANGED <<finalTests, lastTest, exc>>
    /\ requests' = requests + 1
    /\ UNCHANGED <<attempts, file, csv, idx, writes, writeRequests,
                   handlerRuns, handlerErrors, faults, env>>

Next ==
    \/ Start
    \/ ModelRaises
    \/ ModelRequestsTools
    \/ DispatchToolCall
    \/ ModelReplies

Spec == Init /\ [][Next]_vars

-----------------------------------------------------------------------------
(* run_test on its own: every state of the module file and of the reference *)
(* file, and one call.                                                      *)

Sources ==
    {Source(l, p, df) : l \in LoadErrors, p \in ParseErrors, df \in TablesOf(MaxRows)}

InitTest ==
    /\ pc = "TEST_READY"
    /\ file \in {NoFile} \cup {FileOf(s) : s \in Sources}
    /\ csv \in {UnreadableCsv, ReadableCsv(ExpectedDf)}
    /\ messages = <<>>
    /\ attempts = 0
    /\ iteration = 0
    /\ tool_calls = <<>>
    /\ idx = 1
    /\ exc = NoExc
    /\ lastTest = NoTest
    /\ requests = 0
    /\ writes = 0
    /\ writeRequests = 0
    /\ handlerRuns = 0
    /\ handlerErrors = 0
    /\ finalTests = 0
    /\ faults = 0
    /\ env = [api_key |-> TRUE, samples |-> TRUE]

\* a call of run_test(target, pdf_path, csv_path)
CallRunTest ==
    /\ pc = "TEST_READY"
    /\ lastTest' = run_test(file, csv)
    /\ exc' = lastTest'.raised
    /\ pc' = IF lastTest'.raised # NoExc THEN "TEST_RAISED" ELSE "TEST_RETURNED"
    /\ UNCHANGED <<messages, attempts, iteration, file, csv, tool_calls, idx,
                   requests, writes, writeRequests, handlerRuns, handlerErrors,
                   finalTests, faults, env>>

NextTest == CallRunTest

SpecTest == InitTest /\ [][NextTest]_vars

-----------------------------------------------------------------------------
(* Properties.                                                              *)

Last(s) == s[Len(s)]

\* the invocation the for loop is about to dispatch
TheCall == tool_calls[idx]

\* the tool call that the tool message at position i answers: the k-th tool
\* message after an assistant request answers its k-th invocation
RequestBefore(i) ==
    CHOOSE a \in 1..i : /\ IsToolRequest(messages[a])
                        /\ \A j \in (a + 1)..i : messages[j].role = "tool"
AnsweredCall(i) == messages[RequestBefore(i)].tool_calls[i - RequestBefore(i)]

ToolMessages == {i \in DOMAIN messages : messages[i].role = "tool"}

\* C1: at most 3 calls of write_code complete in a run.
C1_AtMostThreeWrites == writes <= 3

\* a run in which three writes were accepted and a further request refused
C1_Witness == writes = 3 /\ attempts > 3

\* C2 as stated: the 4th and every later write_parser_code request the model
\* makes, counting all of its write requests, is refused with the fixed
\* message and leaves the parser file unchanged.
C2_FourthRequestRefused ==
    [][(pc = "DISPATCHING_TOOLS" /\ TheCall.name = WRITE /\ writeRequests >= 3)
         => /\ Last(messages') = ResultMsg(TheCall, MAX_REACHED)
            /\ file' = file]_vars

\* C2 amended: a write_parser_code request that carries a token and is
\* dispatched when the attempt counter is already 3 or more is refused with
\* the fixed message, no write_code call completes and the file is unchanged;
\* the counter is the number of write requests that carried a token and whose
\* executor returned (those answered by a result message).
C2_RefusedOnceCounterAtCap ==
    [][/\ attempts' = Cardinality({i \in DOMAIN messages' :
                                     /\ messages'[i].role = "tool"
                                     /\ messages'[i].name = WRITE})
       /\ (pc = "DISPATCHING_TOOLS" /\ TheCall.name = WRITE /\ TheCall.id # ""
             /\ attempts >= 3)
            => /\ messages' = Append(messages, ResultMsg(TheCall, MAX_REACHED))
               /\ file' = file
               /\ writes' = writes]_vars

\* the fourth counted request has just been refused
C2_Witness ==
    /\ attempts = 4
    /\ messages # <<>>
    /\ Last(messages).content = JsonDumps(MAX_REACHED)
    /\ Last(messages).name = WRITE

\* C3: at most 30 model requests; every completed round, whatever it did to
\* attempts, is counted exactly once by iteration; the loop stands in ABORTED
\* exactly when 30 rounds have completed, and got there without an exception.
C3_IterationCeiling ==
    /\ requests <= 30
    /\ pc \in {"AWAITING_MODEL", "ABORTED"} => iteration = requests
    /\ pc = "DISPATCHING_TOOLS" => iteration = requests - 1
    /\ (iteration = 30) <=> (pc = "ABORTED")
    /\ pc = "ABORTED" => exc = NoExc

\* the ceiling reached
C3_Witness == pc = "ABORTED" /\ requests = 30 /\ iteration = 30

\* C4 as stated: every tool message carries the tool_call_id of the
\* invocation it answers.
C4_ToolMessagesCarryToken ==
    \A i \in ToolMessages :
        /\ messages[i].tool_call_id # NoKey
        /\ messages[i].tool_call_id = AnsweredCall(i).id

\* C5 as stated: an invocation of any name with a missing or empty token
\* enters no executor, changes neither attempts nor the file, and is answered
\* by the error that names the missing tool_call_id.
C5_MissingTokenAnyName ==
    [][(pc = "DISPATCHING_TOOLS" /\ TheCall.id = "")
         => /\ handlerRuns' = handlerRuns
            /\ attempts' = attempts
            /\ file' = file
            /\ messages' = Append(messages, MissingIdMsg(TheCall.name))]_vars

\* C5 amended: an invocation with a missing or empty token enters no
\* executor and changes neither attempts nor the file; for a catalog name it
\* is answered by the error naming the missing tool_call_id, for any other
\* name by the "Unknown tool" result.
C5_MissingTokenSkipsHandler ==
    [][(pc = "DISPATCHING_TOOLS" /\ TheCall.id = "")
         => /\ handlerRuns' = handlerRuns
            /\ attempts' = attempts
            /\ file' = file
            /\ writes' = writes
            /\ messages' = Append(messages,
                  IF TheCall.name \in {GET_PDF, GET_INFO, WRITE, RUN_TEST}
                  THEN MissingIdMsg(TheCall.name)
                  ELSE UnknownToolMsg(TheCall))]_vars

\* a write request without a token was answered by the missing-token error
C5_Witness ==
    \E i \in ToolMessages :
        /\ AnsweredCall(i).id = ""
        /\ AnsweredCall(i).name = WRITE
        /\ messages[i] = MissingIdMsg(WRITE)

\* C6: an invocation whose name is not in the catalog is answered by the
\* "Unknown tool" result, enters no executor, changes neither attempts nor
\* the file, raises nothing, and the loop goes on: to the next invocation,
\* or past the end of the round.
C6_UnknownToolResult ==
    [][(pc = "DISPATCHING_TOOLS"
          /\ TheCall.name \notin {GET_PDF, GET_INFO, WRITE, RUN_TEST})
         => /\ messages' = Append(messages, UnknownToolMsg(TheCall))
            /\ handlerRuns' = handlerRuns
            /\ attempts' = attempts
            /\ file' = file
            /\ exc' = NoExc
            /\ idx' = idx + 1
            /\ IF idx < Len(tool_calls)
               THEN pc' = "DISPATCHING_TOOLS" /\ iteration' = iteration
               ELSE pc' \in {"AWAITING_MODEL", "ABORTED"}
                    /\ iteration' = iteration + 1]_vars

\* an unknown tool was answered, the next invocation of the round was
\* dispatched, and a later round began
C6_Witness ==
    \E i \in ToolMessages :
        /\ messages[i].content = <<"Unknown tool: ", OTHER_TOOL>>
        /\ i + 1 \in ToolMessages
        /\ \E j \in (i + 1)..Len(messages) : messages[j].role = "assistant"

\* C7 as stated: after a no-tool response carrying the marker the final test
\* has run once and the loop is FINISHED, with no exception.
C7_FinishAlwaysFinishes ==
    (messages # <<>> /\ IsPlainReply(Last(messages))
       /\ Last(messages).content[1] \in {"Success! Finish", "FINISH"})
      => pc = "FINISHED" /\ finalTests = 1 /\ exc = NoExc

\* C8 as stated: run_test returns a string and never raises.
C8_RunTestNeverRaises ==
    pc \in {"TEST_RETURNED", "TEST_RAISED"} => lastTest.raised = NoExc

\* the module was loaded, parse returned a table and the reference was read
TablesCompared ==
    /\ file.exists
    /\ file.src.load = NoExc
    /\ file.src.parse = NoExc
    /\ csv.readable

\* C9 as stated: TEST PASSED iff parse's table equals the reference table,
\* and every other outcome is a failure message with both shapes.
C9_PassOrShapes ==
    pc \in {"TEST_RETURNED", "TEST_RAISED"} =>
        /\ (lastTest.text = TEST_PASSED) <=> (TablesCompared /\ file.src.df = csv.df)
        /\ lastTest.text # TEST_PASSED =>
              lastTest.shapes = <<Shape(file.src.df), Shape(csv.df)>>

\* C9 amended: TEST PASSED iff parse's table equals the reference table;
\* when parse returns a table that differs from the reference the failure
\* message holds the shapes of both; the other failures (no file, load
\* failure, error in parse or in reading the reference) carry no shapes.
C9_PassIffEqual ==
    pc \in {"TEST_RETURNED", "TEST_RAISED"} =>
        /\ (lastTest.text = TEST_PASSED) <=> (TablesCompared /\ file.src.df = csv.df)
        /\ (TablesCompared /\ file.src.df # csv.df) =>
              /\ lastTest.text = NOT_MATCH
              /\ lastTest.shapes = <<Shape(file.src.df), Shape(csv.df)>>
        /\ ~TablesCompared => lastTest.shapes = <<>>

\* two tables of the same shape that differ in a cell were told apart
C9_Witness ==
    /\ pc = "TEST_RETURNED"
    /\ lastTest.text = NOT_MATCH
    /\ lastTest.shapes = <<(<<1, 2>>), (<<1, 2>>)>>
    /\ file.src.df.columns = csv.df.columns

\* C10: a dispatch step never lets an exception out of the loop; it appends
\* exactly one tool message, which reports the error when the executor
\* raised, and the loop goes on to the next invocation or past the end of
\* the round.
C10_HandlerErrorsCaught ==
    [][pc = "DISPATCHING_TOOLS"
         => /\ pc' # "RAISED"
            /\ exc' = NoExc
            /\ Len(messages') = Len(messages) + 1
            /\ Last(messages').role = "tool"
            /\ handlerErrors' # handlerErrors =>
                  /\ Last(messages').content[1] = "Tool error: "
                  /\ Last(messages').tool_call_id = TheCall.id
            /\ idx' = idx + 1
            /\ IF idx < Len(tool_calls)
               THEN pc' = "DISPATCHING_TOOLS" /\ iteration' = iteration
               ELSE pc' \in {"AWAITING_MODEL", "ABORTED"}
                    /\ iteration' = iteration + 1]_vars

\* an I/O error of one executor and a load error in run_test were both
\* reported, the invocation after the first was still dispatched, and a
\* later round began
C10_Witness ==
    \E i \in ToolMessages, k \in ToolMessages :
        /\ messages[i].content = <<"Tool error: ", "OSError">>
        /\ i + 1 \in ToolMessages
        /\ messages[k].content = <<"Tool error: ", "SyntaxError">>
        /\ \E j \in (i + 1)..Len(messages) : messages[j].role = "assistant"

\* ---------------------------------------------------------------------------
\* C11  The transcript is append-only.  It is created as exactly one system
\*      message followed by one user message, and every step of the run leaves
\*      the messages it already holds in place, unchanged and in order: a step
\*      can only add messages at the end.
C11_TranscriptAppendOnly ==
    [][/\ Len(messages') >= Len(messages)
       /\ \A i \in 1..Len(messages) : messages'[i] = messages[i]
       /\ (messages = <<>> /\ messages' # <<>>) =>
              /\ Len(messages') = 2
              /\ messages'[1].role = "system"
              /\ messages'[2].role = "user"]_vars

\* a finished run whose transcript grew by a round of three tool results and
\* by further messages after it
C11_Witness ==
    /\ pc = "FINISHED"
    /\ Len(messages) >= 8
    /\ messages[1].role = "system"
    /\ messages[2].role = "user"
    /\ \E i \in DOMAIN messages : Len(messages[i].tool_calls) = 3

\* ---------------------------------------------------------------------------
\* C12  Exhausting the write budget does not stop the loop.  Once the attempt
\*      counter is at the cap, a dispatched write request that reaches the
\*      executor is refused with the fixed message and the file is left alone,
\*      while the other exposed tools still run their handlers; each such
\*      dispatch raises nothing and hands control to the next call of the
\*      round, or at the round's end to the next model request, unless that
\*      round was the thirtieth.
C12_LoopContinuesAfterCap ==
    [][(pc = "DISPATCHING_TOOLS" /\ attempts >= 3) =>
         /\ exc' = NoExc
         /\ pc' = IF idx < Len(tool_calls) THEN "DISPATCHING_TOOLS"
                  ELSE IF iteration + 1 < 30 THEN "AWAITING_MODEL"
                  ELSE "ABORTED"
         /\ idx' = idx + 1
         /\ Len(messages') = Len(messages) + 1
         /\ (TheCall.name = WRITE /\ TheCall.id # "") =>
                /\ Last(messages').content =
                       <<"json", "Max attempts (3) reached. Cannot write more code.">>
                /\ file' = file
                /\ writes' = writes
         /\ (TheCall.name \in {GET_PDF, GET_INFO, RUN_TEST} /\ TheCall.id # "") =>
                /\ handlerRuns' = handlerRuns + 1
                /\ Last(messages').role = "tool"
                /\ Last(messages').tool_call_id = TheCall.id]_vars

\* the fourth counted write request was refused, run_test was dispatched right
\* after the refusal, and the loop then made a further model request
C12_Witness ==
    /\ attempts > 3
    /\ \E i \in DOMAIN messages :
          /\ messages[i].content =
                 <<"json", "Max attempts (3) reached. Cannot write more code.">>
          /\ i + 2 <= Len(messages)
          /\ messages[i + 1].role = "tool"
          /\ messages[i + 1].name = RUN_TEST
          /\ messages[i + 2].role = "assistant"

\* ---------------------------------------------------------------------------
\* C13  (as stated) Whenever a write_parser_code invocation whose argument
\*      payload cannot be decoded is dispatched, the message appended for it
\*      is a tool result describing the decode failure, the parser file is
\*      left unchanged and the loop continues.
C13_UndecodableAlwaysReported ==
    [][(/\ pc = "DISPATCHING_TOOLS"
        /\ TheCall.name = WRITE
        /\ TheCall.arguments = BadArgs) =>
         /\ Len(messages') = Len(messages) + 1
         /\ Last(messages').role = "tool"
         /\ Last(messages').content = <<"json", "Failed to parse tool arguments: ">>
         /\ file' = file
         /\ pc' \in {"DISPATCHING_TOOLS", "AWAITING_MODEL", "ABORTED"}]_vars

\* C13  (amended) A dispatched write_parser_code invocation with an
\*      undecodable payload never changes the parser file and never stops the
\*      loop, and exactly one tool message is appended for it.  That message
\*      describes the decode failure when the invocation carries a token and
\*      the attempt counter is below the cap (the failed decode still consumes
\*      an attempt); at the cap the payload is never decoded and the message
\*      is the fixed refusal; without a token it is the missing-token error.
C13_UndecodableRecovered ==
    [][(/\ pc = "DISPATCHING_TOOLS"
        /\ TheCall.name = WRITE
        /\ TheCall.arguments = BadArgs) =>
         /\ Len(messages') = Len(messages) + 1
         /\ Last(messages').role = "tool"
         /\ file' = file
         /\ writes' = writes
         /\ exc' = NoExc
         /\ pc' = IF idx < Len(tool_calls) THEN "DISPATCHING_TOOLS"
                  ELSE IF iteration + 1 < 30 THEN "AWAITING_MODEL"
                  ELSE "ABORTED"
         /\ IF TheCall.id = ""
            THEN /\ Last(messages').content[1] = "Error: Tool call for missing tool_call_id"
                 /\ attempts' = attempts
            ELSE IF attempts >= 3
            THEN /\ Last(messages').content =
                        <<"json", "Max attempts (3) reached. Cannot write more code.">>
                 /\ attempts' = attempts + 1
            ELSE /\ Last(messages').content = <<"json", "Failed to parse tool arguments: ">>
                 /\ Last(messages').tool_call_id = TheCall.id
                 /\ Last(messages').name = WRITE
                 /\ attempts' = attempts + 1]_vars

\* a decode failure was reported for a write request, the following write
\* request of the same round was accepted, and the run finished
C13_Witness ==
    /\ pc = "FINISHED"
    /\ \E i \in DOMAIN messages :
          /\ messages[i].role = "tool"
          /\ messages[i].name = WRITE
          /\ messages[i].content = <<"json", "Failed to parse tool arguments: ">>
          /\ i < Len(messages)
          /\ messages[i + 1].role = "tool"
          /\ messages[i + 1].name = WRITE
    /\ writes >= 1

\* ---------------------------------------------------------------------------
\* C14  A missing credential or a missing sample PDF/CSV is fatal before the
\*      loop starts: in such a run no model request is made, the transcript
\*      is never created, no tool executor runs and the parser file is not
\*      written; the only thing the run does is raise ValueError.
C14_PreflightFatal ==
    (~env.api_key \/ ~env.samples) =>
        /\ pc \in {"RUNNING", "RAISED"}
        /\ pc = "RAISED" => exc = "ValueError"
        /\ requests = 0
        /\ messages = <<>>
        /\ handlerRuns = 0
        /\ writeRequests = 0
        /\ writes = 0
        /\ finalTests = 0
        /\ file \in Files

\* the credential is present, the sample files are missing, and the run has
\* ended with the pre-flight error
C14_Witness ==
    /\ env.api_key
    /\ ~env.samples
    /\ pc = "RAISED"
    /\ exc = "ValueError"

\* ---------------------------------------------------------------------------
\* C15  A failed model request is fatal.  A step that makes a request and
\*      receives no response (nothing is appended to the transcript) ends the
\*      run with the request's error: it dispatches no tool, runs no test and
\*      changes neither the counters nor the file; and a run that has ended
\*      with an error takes no further step, so the request is not retried.
C15_RequestFailureFatal ==
    [][/\ (requests' = requests + 1 /\ messages' = messages) =>
              /\ pc' = "RAISED"
              /\ exc' = "APIError"
              /\ handlerRuns' = handlerRuns
              /\ writeRequests' = writeRequests
              /\ finalTests' = finalTests
              /\ attempts' = attempts
              /\ iteration' = iteration
              /\ file' = file
       /\ pc # "RAISED"
       /\ exc # "APIError"]_vars

\* the request made after a completed tool round failed: the run ended with
\* the error and the transcript still ends with that round's tool result
C15_Witness ==
    /\ pc = "RAISED"
    /\ exc = "APIError"
    /\ requests = 2
    /\ iteration = 1
    /\ Len(messages) >= 4
    /\ Last(messages).role = "tool"

\* ---------------------------------------------------------------------------
\* C16  (as stated) The attempt counter counts accepted writes: at every
\*      point of a run its value equals the number of write requests accepted
\*      so far.
C16_CounterEqualsAcceptedWrites == attempts = writes

\* C16  (amended) The attempt counter counts write attempts.  It is
\*      incremented by one by the dispatch of every write_parser_code request
\*      that carries a token and whose executor returns (whether the write is
\*      accepted, refused at the cap, or its payload fails to decode) and is
\*      changed by no other step; so its value is at least the number of
\*      accepted writes, and every accepted write is counted.
C16_CounterCountsWriteAttempts ==
    [][/\ attempts' =
              IF /\ pc = "DISPATCHING_TOOLS"
                 /\ TheCall.name = WRITE
                 /\ TheCall.id # ""
                 /\ Last(messages').content[1] = "json"
              THEN attempts + 1
              ELSE attempts
       /\ writes' > writes => attempts' = attempts + 1
       /\ attempts' >= writes']_vars

\* a decode failure and a refusal were both counted, so the counter is ahead
\* of the accepted writes
C16_Witness ==
    /\ writes < attempts
    /\ \E i \in DOMAIN messages :
          messages[i].content = <<"json", "Failed to parse tool arguments: ">>
    /\ \E i \in DOMAIN messages :
          messages[i].content =
              <<"json", "Max attempts (3) reached. Cannot write more code.">>

\* ---------------------------------------------------------------------------
\* C17  A round with n >= 1 tool invocations appends the assistant's request
\*      and then exactly one tool message per invocation, in the order of the
\*      invocations, whatever each dispatch came to (result, handler error,
\*      unknown tool, missing token): n + 1 messages in all.  In the
\*      transcript, the k-th message after a request answers the request's
\*      k-th invocation; while the round is being dispatched the transcript
\*      ends with the answers given so far, and once it is complete the
\*      message after the n-th answer, if any, is an assistant message.
C17_OneResultPerInvocationInOrder ==
    \A a \in DOMAIN messages :
        (messages[a].role = "assistant" /\ messages[a].tool_calls # <<>>) =>
            LET calls == messages[a].tool_calls
                n == Len(calls)
                current ==
                    /\ pc = "DISPATCHING_TOOLS"
                    /\ \A b \in (a + 1)..Len(messages) : messages[b].role = "tool"
                done == IF current THEN idx - 1 ELSE n
            IN  /\ current => (calls = tool_calls /\ Len(messages) = a + done)
                /\ a + done <= Len(messages)
                /\ \A k \in 1..done :
                      LET m == messages[a + k]
                          call == calls[k]
                      IN  /\ m.role = "tool"
                          /\ \/ /\ call.id = ""
                                /\ m.tool_call_id = NoKey
                                /\ m.content = <<"Error: Tool call for missing tool_call_id",
                                                 call.name>>
                             \/ /\ m.tool_call_id = call.id
                                /\ \/ m.name = call.name
                                   \/ m.content = <<"Unknown tool: ", call.name>>
                                   \/ m.content[1] = "Tool error: "
                /\ a + done < Len(messages) => messages[a + done + 1].role = "assistant"

\* a completed round of three invocations in which the first two carried no
\* token and the second named no exposed tool, followed by a further message
C17_Witness ==
    \E a \in DOMAIN messages :
        /\ messages[a].role = "assistant"
        /\ Len(messages[a].tool_calls) = 3
        /\ messages[a].tool_calls[1].id = ""
        /\ messages[a].tool_calls[2].name = OTHER_TOOL
        /\ Len(messages) >= a + 4
        /\ messages[a + 3].role = "tool"
        /\ messages[a + 3].tool_call_id = "call_3"
        /\ messages[a + 4].role = "assistant"

\* ---------------------------------------------------------------------------
\* C18  (as stated, in its finite-run form) A run that passed the pre-flight
\*      checks and whose model requests all returned stops in exactly one of
\*      two ways, FINISHED or ABORTED: whenever such a run is no longer in
\*      the loop, it is in one of these two states.
C18_StopsFinishedOrAborted ==
    (/\ pc \notin {"RUNNING", "AWAITING_MODEL", "DISPATCHING_TOOLS"}
     /\ messages # <<>>
     /\ exc # "APIError")
        => pc \in {"FINISHED", "ABORTED"}

\* ---------------------------------------------------------------------------
\* C19  The completion marker is honoured only in a response without tool
\*      invocations.  A response that carries both tool invocations and the
\*      marker text is appended as a tool request and its invocations are
\*      dispatched like any other round's: no final validation test is run,
\*      the run does not become FINISHED, and the round's end increments the
\*      iteration counter.
C19_MarkerIgnoredWithToolCalls ==
    [][/\ (/\ requests' = requests + 1
           /\ messages' # messages
           /\ tool_calls' # <<>>
           /\ Last(messages').content = <<"FINISH">>) =>
              /\ Last(messages').role = "assistant"
              /\ Last(messages').tool_calls = tool_calls'
              /\ pc' = "DISPATCHING_TOOLS"
              /\ idx' = 1
              /\ finalTests' = finalTests
              /\ iteration' = iteration
       /\ (/\ pc = "DISPATCHING_TOOLS"
           /\ idx <= Len(messages)
           /\ messages[Len(messages) + 1 - idx].content = <<"FINISH">>) =>
              /\ messages[Len(messages) + 1 - idx].tool_calls = tool_calls
              /\ Len(messages') = Len(messages) + 1
              /\ Last(messages').role = "tool"
              /\ (TheCall.name \in tool_map /\ TheCall.id # "") =>
                     handlerRuns' = handlerRuns + 1
              /\ finalTests' = finalTests
              /\ pc' = IF idx < Len(tool_calls) THEN "DISPATCHING_TOOLS"
                       ELSE IF iteration + 1 < 30 THEN "AWAITING_MODEL"
                       ELSE "ABORTED"
              /\ iteration' = IF idx < Len(tool_calls) THEN iteration
                              ELSE iteration + 1]_vars

\* the first response carried the marker and a run_test invocation: the
\* invocation was answered, one round was counted, no final test was run and
\* the loop is waiting for the next response
C19_Witness ==
    /\ pc = "AWAITING_MODEL"
    /\ iteration = 1
    /\ finalTests = 0
    /\ handlerRuns = 1
    /\ Len(messages) = 4
    /\ messages[3].role = "assistant"
    /\ messages[3].content = <<"FINISH">>
    /\ messages[3].tool_calls # <<>>
    /\ messages[4].role = "tool"
    /\ messages[4].name = RUN_TEST

\* ---------------------------------------------------------------------------
\* C20  Only the dispatch of a write_parser_code invocation changes the
\*      attempt counter or the parser file.  Every other step (the dispatch of
\*      get_pdf_content, get_expected_info, run_test or an unknown tool, a
\*      tool request or plain message being appended, the final validation
\*      test, a failed request, the pre-flight checks) leaves both unchanged;
\*      and the attempt counter never decreases.
C20_OnlyWriteDispatchChangesCounterOrFile ==
    [][/\ (attempts' # attempts \/ file' # file) =>
              /\ pc = "DISPATCHING_TOOLS"
              /\ TheCall.name = WRITE
       /\ attempts' >= attempts]_vars

\* a finished run in which the three read-only tools were dispatched, a write
\* was accepted and the final validation test was run
C20_Witness ==
    /\ pc = "FINISHED"
    /\ finalTests = 1
    /\ attempts = 1
    /\ writes = 1
    /\ \A t \in {GET_PDF, GET_INFO, RUN_TEST, WRITE} :
          \E i \in DOMAIN messages : messages[i].role = "tool" /\ messages[i].name = t

=============================================================================
